---- MODULE Spec2Model ----
(***************************************************************************)
(* Model of the bookshelf view: the grid coordinate mapper (getPhysPos,    *)
(* getGridPos), the two push-chain resolvers (the preview one of the drag  *)
(* handler over a scratch Map, the final one of the end handler over a     *)
(* copied list), the drag gesture (start / drag / end) and the commit and  *)
(* refresh requests the end handler and the context provider issue.        *)
(*                                                                         *)
(* A book is a record [isbn, x, y]: as in the source, x is the ROW and y   *)
(* is the COLUMN of the book's cell.                                       *)
(***************************************************************************)
EXTENDS Integers, Sequences, FiniteSets, TLC

VARIABLES
    store,           \* the backend's shelf record (books, books_per_shelf, total_shelves)
    myBookshelf,     \* the provider's state: useState([]) / setMyBookshelf(res.data)
    ctl,             \* "IDLE" or "DRAGGING": whether a d3 drag gesture is active
    drag,            \* the active gesture: dragged book, the handlers' closure, me.attr x/y
    lastMove,        \* what the latest "drag" event of the gesture computed
                     \* (right: whether its event.dx was >= 0)
    lastEnd,         \* what the latest "end" event computed
    earlier,         \* history: one earlier "drag" event of the same gesture
    pendingCommits,  \* sync-layout POSTs in flight (their bodies)
    pendingFetches,  \* bookshelf GETs in flight
    gestureCommits,  \* sync-layout POSTs issued since the latest "start" event
    gesturesLeft,    \* how many more gestures the user makes
    probe,           \* the coordinate mapper applied to a pixel position or a cell
    shown,           \* the book images of the svg: [isbn, x, y], their x/y attributes
    guide,           \* the guide rect held by the handlers in use: the gesture's, else the latest render's
    pendingAdmin,    \* capacity / add row / remove row POSTs in flight
    alerts,          \* alert() calls so far
    unhandled,       \* promise rejections no handler took
    lastAdmin        \* the latest capacity / add row / remove row request that completed

viewVars == <<shown, guide>>

adminVars == <<pendingAdmin, alerts, unhandled, lastAdmin>>

vars == <<store, myBookshelf, ctl, drag, lastMove, lastEnd, earlier,
          pendingCommits, pendingFetches, gestureCommits, gesturesLeft, probe,
          viewVars, adminVars>>

(***************************************************************************)
(* Bounds of the model.                                                    *)
(***************************************************************************)
MaxShelves == 2
MaxCols == 3
NumBooks == 3
MaxInFlight == 1
MaxGestures == 1
MaxFailures == 1
PixelMargin == 50

(***************************************************************************)
(* 1. Constants of the view.                                               *)
(***************************************************************************)
BOOK_WIDTH == 80
BOOK_HEIGHT == 120
TOP_GAP == 30
FRAME_THICKNESS == 18
DefaultBooksPerShelf == 5
DefaultShelfCount == 3

isModalOpen == FALSE

unitShelfHeight == TOP_GAP + BOOK_HEIGHT

\* myBookshelf?.books || []
books(ms) == ms.books

\* myBookshelf?.books_per_shelf || 5   (0 and undefined are falsy)
currentBooksPerShelf(ms) ==
    IF ms.books_per_shelf = 0 THEN DefaultBooksPerShelf ELSE ms.books_per_shelf

\* myBookshelf?.total_shelves || 3
shelfCount(ms) ==
    IF ms.total_shelves = 0 THEN DefaultShelfCount ELSE ms.total_shelves

(***************************************************************************)
(* 3. Coordinate mapping.  Math.floor(a / b) for b > 0 is a \div b.        *)
(***************************************************************************)
Max(a, b) == IF a >= b THEN a ELSE b
Min(a, b) == IF a <= b THEN a ELSE b

\* mutant: the row and the column taken for one another
getPhysPosSwapped(row, col) ==
    [x |-> FRAME_THICKNESS + row * BOOK_WIDTH,
     y |-> FRAME_THICKNESS + col * (unitShelfHeight + FRAME_THICKNESS) + TOP_GAP]

getPhysPos(row, col) ==
    [x |-> FRAME_THICKNESS + col * BOOK_WIDTH,
     y |-> FRAME_THICKNESS + row * (unitShelfHeight + FRAME_THICKNESS) + TOP_GAP]

\* mutant: the column is not clamped at 0
getGridPosUnclamped(pxX, pxY, sc, bps) ==
    [row |-> Max(0, Min((pxY - FRAME_THICKNESS) \div (unitShelfHeight + FRAME_THICKNESS),
                        sc - 1)),
     col |-> Min((pxX - FRAME_THICKNESS) \div BOOK_WIDTH, bps - 1)]

getGridPos(pxX, pxY, sc, bps) ==
    [row |-> Max(0, Min((pxY - FRAME_THICKNESS) \div (unitShelfHeight + FRAME_THICKNESS),
                        sc - 1)),
     col |-> Max(0, Min((pxX - FRAME_THICKNESS) \div BOOK_WIDTH, bps - 1))]

\* the drag and end handlers' target: the cell under the centre of the dragged image
TargetOf(px, py, sc, bps) ==
    getGridPos(px + BOOK_WIDTH \div 2, py + BOOK_HEIGHT \div 2, sc, bps)

(***************************************************************************)
(* Sequence helpers.                                                       *)
(***************************************************************************)
RemoveAt(s, i) == SubSeq(s, 1, i - 1) \o SubSeq(s, i + 1, Len(s))

\* Array.prototype.filter, keeping the order
RECURSIVE FilterOut(_, _)
FilterOut(s, isbn) ==
    IF s = <<>> THEN <<>>
    ELSE IF Head(s).isbn = isbn THEN FilterOut(Tail(s), isbn)
         ELSE <<Head(s)>> \o FilterOut(Tail(s), isbn)

\* Array.prototype.find over the indices that pass its test: the first of them,
\* 0 (undefined) when there is none
FirstIndex(hits) ==
    IF hits = {} THEN 0 ELSE CHOOSE i \in hits : \A j \in hits : i <= j

(***************************************************************************)
(* 6a. The preview resolver of the "drag" handler.  virtualPositions is a  *)
(* Map in insertion order: a sequence of [isbn, x, y] without the mover.   *)
(***************************************************************************)
\* mutant: the mover is left in the scratch Map
VirtualInitWithMover(bs, prev, isbn) ==
    [i \in 1..Len(bs) |-> [isbn |-> bs[i].isbn, x |-> bs[i].x, y |-> bs[i].y]]

\* mutant: the scratch Map of the previous event is kept and worked on
VirtualInitAccumulated(bs, prev, isbn) ==
    IF prev # <<>> THEN prev
    ELSE LET others == FilterOut(bs, isbn)
         IN  [i \in 1..Len(others) |->
                 [isbn |-> others[i].isbn, x |-> others[i].x, y |-> others[i].y]]

\* new Map(books.filter((b) => b.isbn !== d.isbn).map((b) => [b.isbn, {x: b.x, y: b.y}]))
\* prev, the Map of the previous event, is not read
VirtualInit(bs, prev, isbn) ==
    LET others == FilterOut(bs, isbn)
    IN  [i \in 1..Len(others) |->
            [isbn |-> others[i].isbn, x |-> others[i].x, y |-> others[i].y]]

findIntruderV(vp, row, col) ==
    FirstIndex({i \in 1..Len(vp) : vp[i].x = row /\ vp[i].y = col})

\* mutant: the right edge guard is off by one
RECURSIVE pushRightOffByOne(_, _, _, _)
pushRightOffByOne(vp, row, col, bps) ==
    LET i == findIntruderV(vp, row, col) IN
    IF i = 0 THEN [ok |-> TRUE, vp |-> vp, cols |-> <<col>>]
    ELSE IF vp[i].y + 1 > bps THEN [ok |-> FALSE, vp |-> vp, cols |-> <<col>>]
    ELSE LET r == pushRightOffByOne(vp, row, vp[i].y + 1, bps) IN
         IF r.ok
         THEN [ok |-> TRUE,
               vp |-> [r.vp EXCEPT ![i] = [isbn |-> vp[i].isbn, x |-> vp[i].x,
                                           y |-> vp[i].y + 1]],
               cols |-> <<col>> \o r.cols]
         ELSE [ok |-> FALSE, vp |-> r.vp, cols |-> <<col>> \o r.cols]

RECURSIVE pushRight(_, _, _, _)
pushRight(vp, row, col, bps) ==
    LET i == findIntruderV(vp, row, col) IN
    IF i = 0 THEN [ok |-> TRUE, vp |-> vp, cols |-> <<col>>]
    ELSE IF vp[i].y + 1 >= bps THEN [ok |-> FALSE, vp |-> vp, cols |-> <<col>>]
    ELSE LET r == pushRight(vp, row, vp[i].y + 1, bps) IN
         IF r.ok
         THEN [ok |-> TRUE,
               vp |-> [r.vp EXCEPT ![i] = [isbn |-> vp[i].isbn, x |-> vp[i].x,
                                           y |-> vp[i].y + 1]],
               cols |-> <<col>> \o r.cols]
         ELSE [ok |-> FALSE, vp |-> r.vp, cols |-> <<col>> \o r.cols]

\* mutant: no left edge guard
RECURSIVE pushLeftNoGuard(_, _, _, _)
pushLeftNoGuard(vp, row, col, bps) ==
    LET i == findIntruderV(vp, row, col) IN
    IF i = 0 THEN [ok |-> TRUE, vp |-> vp, cols |-> <<col>>]
    ELSE LET r == pushLeftNoGuard(vp, row, vp[i].y - 1, bps) IN
         [ok |-> r.ok,
          vp |-> [r.vp EXCEPT ![i] = [isbn |-> vp[i].isbn, x |-> vp[i].x,
                                      y |-> vp[i].y - 1]],
          cols |-> <<col>> \o r.cols]

RECURSIVE pushLeft(_, _, _, _)
pushLeft(vp, row, col, bps) ==
    LET i == findIntruderV(vp, row, col) IN
    IF i = 0 THEN [ok |-> TRUE, vp |-> vp, cols |-> <<col>>]
    ELSE IF vp[i].y - 1 < 0 THEN [ok |-> FALSE, vp |-> vp, cols |-> <<col>>]
    ELSE LET r == pushLeft(vp, row, vp[i].y - 1, bps) IN
         IF r.ok
         THEN [ok |-> TRUE,
               vp |-> [r.vp EXCEPT ![i] = [isbn |-> vp[i].isbn, x |-> vp[i].x,
                                           y |-> vp[i].y - 1]],
               cols |-> <<col>> \o r.cols]
         ELSE [ok |-> FALSE, vp |-> r.vp, cols |-> <<col>> \o r.cols]

\* dragDx >= 0 ? pushRight(..) || pushLeft(..) : pushLeft(..) || pushRight(..)
\* (|| runs its second operand, on the Map as the first left it, only if the
\* first returned false)
canPush(vp, target, dragDx, bps) ==
    LET first == IF dragDx >= 0 THEN pushRight(vp, target.row, target.col, bps)
                 ELSE pushLeft(vp, target.row, target.col, bps)
        second == IF dragDx >= 0 THEN pushLeft(first.vp, target.row, target.col, bps)
                  ELSE pushRight(first.vp, target.row, target.col, bps)
    IN  IF first.ok
        THEN [ok |-> TRUE, firstOk |-> TRUE, mid |-> first.vp, vp |-> first.vp,
              firstCols |-> first.cols, secondCols |-> <<>>]
        ELSE [ok |-> second.ok, firstOk |-> FALSE, mid |-> first.vp, vp |-> second.vp,
              firstCols |-> first.cols, secondCols |-> second.cols]

(***************************************************************************)
(* 6b. The final resolver of the "end" handler.  finalPositions is a copy  *)
(* of books (mover included) whose objects are changed in place.           *)
(***************************************************************************)
FinalInit(bs) ==
    [i \in 1..Len(bs) |-> [isbn |-> bs[i].isbn, x |-> bs[i].x, y |-> bs[i].y]]

\* mutant: the intruder is looked for in the column, whatever its row
findIntruderFAnyRow(fp, isbn, row, col) ==
    FirstIndex({i \in 1..Len(fp) : fp[i].isbn # isbn /\ fp[i].y = col})

findIntruderF(fp, isbn, row, col) ==
    FirstIndex({i \in 1..Len(fp) : fp[i].isbn # isbn /\ fp[i].x = row /\ fp[i].y = col})

\* mutant: the intruder is moved whether or not the rest of the chain could move
RECURSIVE applyPushRightEager(_, _, _, _, _)
applyPushRightEager(fp, isbn, row, col, bps) ==
    LET i == findIntruderF(fp, isbn, row, col) IN
    IF i = 0 THEN [ok |-> TRUE, fp |-> fp, cols |-> <<col>>]
    ELSE IF fp[i].y + 1 >= bps THEN [ok |-> FALSE, fp |-> fp, cols |-> <<col>>]
    ELSE LET r == applyPushRightEager(fp, isbn, row, fp[i].y + 1, bps) IN
         [ok |-> r.ok, fp |-> [r.fp EXCEPT ![i].y = r.fp[i].y + 1],
          cols |-> <<col>> \o r.cols]

RECURSIVE applyPushRight(_, _, _, _, _)
applyPushRight(fp, isbn, row, col, bps) ==
    LET i == findIntruderF(fp, isbn, row, col) IN
    IF i = 0 THEN [ok |-> TRUE, fp |-> fp, cols |-> <<col>>]
    ELSE IF fp[i].y + 1 >= bps THEN [ok |-> FALSE, fp |-> fp, cols |-> <<col>>]
    ELSE LET r == applyPushRight(fp, isbn, row, fp[i].y + 1, bps) IN
         IF r.ok
         THEN [ok |-> TRUE, fp |-> [r.fp EXCEPT ![i].y = r.fp[i].y + 1],
               cols |-> <<col>> \o r.cols]
         ELSE [ok |-> FALSE, fp |-> r.fp, cols |-> <<col>> \o r.cols]

\* mutant: the left edge guard also refuses column 0 as a destination
RECURSIVE applyPushLeftStrict(_, _, _, _, _)
applyPushLeftStrict(fp, isbn, row, col, bps) ==
    LET i == findIntruderF(fp, isbn, row, col) IN
    IF i = 0 THEN [ok |-> TRUE, fp |-> fp, cols |-> <<col>>]
    ELSE IF fp[i].y - 1 <= 0 THEN [ok |-> FALSE, fp |-> fp, cols |-> <<col>>]
    ELSE LET r == applyPushLeftStrict(fp, isbn, row, fp[i].y - 1, bps) IN
         IF r.ok
         THEN [ok |-> TRUE, fp |-> [r.fp EXCEPT ![i].y = r.fp[i].y - 1],
               cols |-> <<col>> \o r.cols]
         ELSE [ok |-> FALSE, fp |-> r.fp, cols |-> <<col>> \o r.cols]

RECURSIVE applyPushLeft(_, _, _, _, _)
applyPushLeft(fp, isbn, row, col, bps) ==
    LET i == findIntruderF(fp, isbn, row, col) IN
    IF i = 0 THEN [ok |-> TRUE, fp |-> fp, cols |-> <<col>>]
    ELSE IF fp[i].y - 1 < 0 THEN [ok |-> FALSE, fp |-> fp, cols |-> <<col>>]
    ELSE LET r == applyPushLeft(fp, isbn, row, fp[i].y - 1, bps) IN
         IF r.ok
         THEN [ok |-> TRUE, fp |-> [r.fp EXCEPT ![i].y = r.fp[i].y - 1],
               cols |-> <<col>> \o r.cols]
         ELSE [ok |-> FALSE, fp |-> r.fp, cols |-> <<col>> \o r.cols]

\* mutant: dragDx > 0 instead of dragDx >= 0
pushedStrictSign(fp, isbn, target, dragDx, bps) ==
    LET first == IF dragDx > 0 THEN applyPushRight(fp, isbn, target.row, target.col, bps)
                 ELSE applyPushLeft(fp, isbn, target.row, target.col, bps)
        second == IF dragDx > 0
                  THEN applyPushLeft(first.fp, isbn, target.row, target.col, bps)
                  ELSE applyPushRight(first.fp, isbn, target.row, target.col, bps)
    IN  IF first.ok
        THEN [ok |-> TRUE, firstOk |-> TRUE, mid |-> first.fp, fp |-> first.fp,
              firstCols |-> first.cols, secondCols |-> <<>>]
        ELSE [ok |-> second.ok, firstOk |-> FALSE, mid |-> first.fp, fp |-> second.fp,
              firstCols |-> first.cols, secondCols |-> second.cols]

pushed(fp, isbn, target, dragDx, bps) ==
    LET first == IF dragDx >= 0 THEN applyPushRight(fp, isbn, target.row, target.col, bps)
                 ELSE applyPushLeft(fp, isbn, target.row, target.col, bps)
        second == IF dragDx >= 0
                  THEN applyPushLeft(first.fp, isbn, target.row, target.col, bps)
                  ELSE applyPushRight(first.fp, isbn, target.row, target.col, bps)
    IN  IF first.ok
        THEN [ok |-> TRUE, firstOk |-> TRUE, mid |-> first.fp, fp |-> first.fp,
              firstCols |-> first.cols, secondCols |-> <<>>]
        ELSE [ok |-> second.ok, firstOk |-> FALSE, mid |-> first.fp, fp |-> second.fp,
              firstCols |-> first.cols, secondCols |-> second.cols]

\* if (pushed) { currentD.x = target.row; currentD.y = target.col; }
PlaceMover(fp, isbn, target, ok) ==
    LET c == FirstIndex({i \in 1..Len(fp) : fp[i].isbn = isbn})
    IN  IF ok THEN [fp EXCEPT ![c].x = target.row, ![c].y = target.col] ELSE fp

(***************************************************************************)
(* State.                                                                  *)
(***************************************************************************)
Cells(sc, bps) == (0..(sc - 1)) \X (0..(bps - 1))

Injective(f) == \A i, j \in DOMAIN f : f[i] = f[j] => i = j

\* the layouts the backend can hold: books 1..n in distinct cells of the grid
StoreLayouts(sc, bps) ==
    LET places == UNION {[1..n -> Cells(sc, bps)] : n \in 0..NumBooks}
    IN  {[i \in DOMAIN p |-> [isbn |-> i, x |-> p[i][1], y |-> p[i][2]]] :
            p \in {q \in places : Injective(q)}}

EmptyShelf == [books |-> <<>>, books_per_shelf |-> 0, total_shelves |-> 0]

\* attached: the dragged image is still in the svg (no render since "start");
\* kept: where the other images were put by the latest successful "drag" event of
\* the gesture or, lacking one, by the latest render or the gesture's start
NoDrag == [isbn |-> 0, books |-> <<>>, bps |-> 0, shelfCount |-> 0, x |-> 0, y |-> 0,
           attached |-> FALSE, kept |-> <<>>]

\* the guide rect as appended: hidden, no x/y attribute yet
NewGuide == [visibility |-> "hidden", x |-> 0, y |-> 0]

NoAdmin == [op |-> "none", ok |-> FALSE, why |-> "none"]

NoTarget == [row |-> 0, col |-> 0]

NoMove == [done |-> FALSE, target |-> NoTarget, right |-> FALSE, canPush |-> FALSE,
           firstOk |-> FALSE, mid |-> <<>>, virtualPositions |-> <<>>,
           firstCols |-> <<>>, secondCols |-> <<>>]

NoEnd == [done |-> FALSE, isbn |-> 0, books |-> <<>>, bps |-> 0, shelfCount |-> 0,
          target |-> NoTarget, dx |-> 0, pushed |-> FALSE, firstOk |-> FALSE,
          mid |-> <<>>, finalPositions |-> <<>>, preview |-> NoMove,
          firstCols |-> <<>>, secondCols |-> <<>>]

NoProbe == [kind |-> "none", inX |-> 0, inY |-> 0, sc |-> 0, bps |-> 0,
            cell |-> NoTarget]

\* a GET in flight: sent, then answered by the backend with the record it holds
FetchSent == [served |-> FALSE, data |-> EmptyShelf]

InFlight == Len(pendingCommits) + Len(pendingFetches) + Len(pendingAdmin)

\* everything but the backend's record, as the provider and the view construct it:
\* useState([]), no gesture, and the mount effect's fetchBookshelf() in flight
Constructed ==
    /\ myBookshelf = EmptyShelf
    /\ ctl = "IDLE"
    /\ drag = NoDrag
    /\ lastMove = NoMove
    /\ lastEnd = NoEnd
    /\ earlier = NoMove
    /\ pendingCommits = <<>>
    /\ pendingFetches = <<FetchSent>>
    /\ gestureCommits = 0
    /\ probe = NoProbe
    /\ shown = <<>>
    /\ guide = NewGuide
    /\ pendingAdmin = <<>>
    /\ alerts = 0
    /\ unhandled = 0
    /\ lastAdmin = NoAdmin

Init ==
    /\ \E sc \in 1..MaxShelves, bps \in 1..MaxCols :
         \E bs \in StoreLayouts(sc, bps) :
            store = [books |-> bs, books_per_shelf |-> bps, total_shelves |-> sc]
    /\ gesturesLeft = MaxGestures
    /\ Constructed

(***************************************************************************)
(* 6c. The drag gesture.                                                   *)
(***************************************************************************)
\* booksWithPosition and the join that draws it: one image per book at the
\* pixel position of its cell
booksWithPosition(bs) ==
    [i \in 1..Len(bs) |->
        [isbn |-> bs[i].isbn, x |-> getPhysPos(bs[i].x, bs[i].y).x,
         y |-> getPhysPos(bs[i].x, bs[i].y).y]]

\* .on("start"): the gesture begins on image number i of the svg; the handlers
\* are those of the render that drew it, over that render's books
Start(i) ==
    /\ ctl = "IDLE"
    /\ gesturesLeft > 0
    /\ i \in 1..Len(books(myBookshelf))
    /\ ~isModalOpen
    /\ ctl' = "DRAGGING"
    /\ drag' = [isbn |-> books(myBookshelf)[i].isbn,
                books |-> books(myBookshelf),
                bps |-> currentBooksPerShelf(myBookshelf),
                shelfCount |-> shelfCount(myBookshelf),
                x |-> shown[i].x,
                y |-> shown[i].y,
                attached |-> TRUE,
                kept |-> shown]
    /\ guide' = [guide EXCEPT !.visibility = "visible"]
    /\ lastMove' = NoMove
    /\ lastEnd' = NoEnd
    /\ earlier' = NoMove
    /\ gestureCommits' = 0
    /\ gesturesLeft' = gesturesLeft - 1
    /\ UNCHANGED <<store, myBookshelf, pendingCommits, pendingFetches, probe, shown,
                   adminVars>>

\* the pixel positions a pointer takes the image to: the cells' corners, one
\* cell beyond the grid to the left and to the right, one shelf below it
DragXs(bps) == {getPhysPos(0, c).x : c \in (-1)..bps}
DragYs(sc) == {getPhysPos(r, 0).y : r \in 0..sc}

\* virtualPositions.get(other.isbn)
VPosOf(vp, isbn) == vp[CHOOSE k \in 1..Len(vp) : vp[k].isbn = isbn]

\* mutant: the other images go to their virtual cells whether or not canPush
ShowPreviewAlways(sh, vp, isbn, ok) ==
    [i \in 1..Len(sh) |->
        IF sh[i].isbn # isbn
        THEN [isbn |-> sh[i].isbn,
              x |-> getPhysPos(VPosOf(vp, sh[i].isbn).x, VPosOf(vp, sh[i].isbn).y).x,
              y |-> getPhysPos(VPosOf(vp, sh[i].isbn).x, VPosOf(vp, sh[i].isbn).y).y]
        ELSE sh[i]]

\* the canPush branch, the images: on success every image but the mover's goes to
\* the pixel position of its virtual cell; on failure no image is touched
ShowPreview(sh, vp, isbn, ok) ==
    IF ok
    THEN [i \in 1..Len(sh) |->
            IF sh[i].isbn # isbn
            THEN [isbn |-> sh[i].isbn,
                  x |-> getPhysPos(VPosOf(vp, sh[i].isbn).x, VPosOf(vp, sh[i].isbn).y).x,
                  y |-> getPhysPos(VPosOf(vp, sh[i].isbn).x, VPosOf(vp, sh[i].isbn).y).y]
            ELSE sh[i]]
    ELSE sh

\* mutant: the else branch leaves the guide as it is
ShowGuideStays(g, target, ok) ==
    IF ok
    THEN [visibility |-> "visible", x |-> getPhysPos(target.row, target.col).x,
          y |-> getPhysPos(target.row, target.col).y]
    ELSE g

\* the canPush branch, the guide: shown at the target's pixel position, or hidden
ShowGuide(g, target, ok) ==
    IF ok
    THEN [visibility |-> "visible", x |-> getPhysPos(target.row, target.col).x,
          y |-> getPhysPos(target.row, target.col).y]
    ELSE [g EXCEPT !.visibility = "hidden"]

\* .on("drag"): newX/newY = event.x/y - data-offset; event.dx is the pointer's
\* step since the previous event, which is the step of the image's x attribute.
\* keep: whether the history variable takes the outcome of the previous event
Move(newX, newY, keep) ==
    /\ ctl = "DRAGGING"
    /\ ~isModalOpen
    /\ LET dragDx == newX - drag.x
           target == TargetOf(newX, newY, drag.shelfCount, drag.bps)
           vp0 == VirtualInit(drag.books, lastMove.virtualPositions, drag.isbn)
           res == canPush(vp0, target, dragDx, drag.bps)
       IN  /\ shown' = ShowPreview(shown, res.vp, drag.isbn, res.ok)
           /\ guide' = ShowGuide(guide, target, res.ok)
           /\ drag' = [drag EXCEPT !.x = newX, !.y = newY,
                                   !.kept = IF res.ok THEN shown' ELSE @]
           /\ lastMove' = [done |-> TRUE, target |-> target, right |-> (dragDx >= 0),
                           canPush |-> res.ok, firstOk |-> res.firstOk,
                           mid |-> res.mid, virtualPositions |-> res.vp,
                           firstCols |-> res.firstCols, secondCols |-> res.secondCols]
    /\ earlier' = IF keep /\ lastMove.done THEN lastMove ELSE earlier
    /\ UNCHANGED <<store, myBookshelf, ctl, lastEnd, pendingCommits, pendingFetches,
                   gestureCommits, gesturesLeft, probe, adminVars>>

\* mutant: nothing is sent when the push failed
postSyncLayoutIfPushed(pending, finalPositions, ok) ==
    IF ok THEN Append(pending, finalPositions) ELSE pending

\* fetch(".../bookshelf/sync-layout", {method: "POST", body: finalPositions}):
\* sent whether or not the push succeeded (ok is not read)
postSyncLayout(pending, finalPositions, ok) == Append(pending, finalPositions)

\* me.transition()...attr("x", finalPhys.x).attr("y", finalPhys.y): the dragged
\* image settles on the mover's final cell (an image no longer in the svg is not shown)
SettleMover(sh, finalPositions, isbn, attached) ==
    LET c == finalPositions[FirstIndex({k \in 1..Len(finalPositions) :
                                          finalPositions[k].isbn = isbn})]
    IN  IF attached
        THEN [i \in 1..Len(sh) |->
                IF sh[i].isbn = isbn
                THEN [isbn |-> isbn, x |-> getPhysPos(c.x, c.y).x,
                      y |-> getPhysPos(c.x, c.y).y]
                ELSE sh[i]]
        ELSE sh

\* .on("end"): up to the await of the sync-layout POST.  The guide hidden is the
\* handlers' own; after a render during the gesture the handlers in use from now
\* on are the render's, whose guide is as appended
End(dragDx) ==
    /\ ctl = "DRAGGING"
    /\ InFlight < MaxInFlight
    /\ LET target == TargetOf(drag.x, drag.y, drag.shelfCount, drag.bps)
           res == pushed(FinalInit(drag.books), drag.isbn, target, dragDx, drag.bps)
           finalPositions == PlaceMover(res.fp, drag.isbn, target, res.ok)
       IN  /\ lastEnd' = [done |-> TRUE, isbn |-> drag.isbn, books |-> drag.books,
                          bps |-> drag.bps, shelfCount |-> drag.shelfCount,
                          target |-> target, dx |-> dragDx, pushed |-> res.ok,
                          firstOk |-> res.firstOk, mid |-> res.mid,
                          finalPositions |-> finalPositions, preview |-> lastMove,
                          firstCols |-> res.firstCols, secondCols |-> res.secondCols]
           /\ pendingCommits' = postSyncLayout(pendingCommits, finalPositions, res.ok)
           /\ shown' = SettleMover(shown, finalPositions, drag.isbn, drag.attached)
    /\ guide' = IF drag.attached THEN [guide EXCEPT !.visibility = "hidden"] ELSE NewGuide
    /\ gestureCommits' = gestureCommits + Len(pendingCommits') - Len(pendingCommits)
    /\ ctl' = "IDLE"
    /\ drag' = NoDrag
    /\ lastMove' = NoMove
    /\ earlier' = NoMove
    /\ UNCHANGED <<store, myBookshelf, pendingFetches, gesturesLeft, probe, adminVars>>

(***************************************************************************)
(* The backend and the requests in flight.  lastEnd holds the end          *)
(* handler's locals, which live until its await returns.                   *)
(***************************************************************************)
\* sync-layout: every book of the body gets the body's cell
SyncLayout(st, body) ==
    LET NewPos(b) ==
          IF \E k \in 1..Len(body) : body[k].isbn = b.isbn
          THEN LET k == CHOOSE k \in 1..Len(body) : body[k].isbn = b.isbn
               IN  [isbn |-> b.isbn, x |-> body[k].x, y |-> body[k].y]
          ELSE b
    IN  [st EXCEPT !.books = [i \in 1..Len(st.books) |-> NewPos(st.books[i])]]

\* the POST is answered: the await returns and the try block calls fetchBookshelf()
CommitResolve(k) ==
    /\ k \in 1..Len(pendingCommits)
    /\ store' = SyncLayout(store, pendingCommits[k])
    /\ pendingCommits' = RemoveAt(pendingCommits, k)
    /\ pendingFetches' = Append(pendingFetches, FetchSent)
    /\ lastEnd' = NoEnd
    /\ UNCHANGED <<myBookshelf, ctl, drag, lastMove, earlier, gestureCommits,
                   gesturesLeft, probe, viewVars, adminVars>>

\* mutant: the catch block only logs
CommitRejectLogsOnly(k) ==
    /\ k \in 1..Len(pendingCommits)
    /\ pendingCommits' = RemoveAt(pendingCommits, k)
    /\ lastEnd' = NoEnd
    /\ UNCHANGED <<store, myBookshelf, ctl, drag, lastMove, earlier, gestureCommits,
                   gesturesLeft, probe, viewVars, adminVars, pendingFetches>>

\* the POST fails: the catch block logs and calls fetchBookshelf()
CommitReject(k) ==
    /\ k \in 1..Len(pendingCommits)
    /\ pendingCommits' = RemoveAt(pendingCommits, k)
    /\ pendingFetches' = Append(pendingFetches, FetchSent)
    /\ lastEnd' = NoEnd
    /\ UNCHANGED <<store, myBookshelf, ctl, drag, lastMove, earlier, gestureCommits,
                   gesturesLeft, probe, viewVars, adminVars>>

\* the backend answers a GET with the record it holds
FetchServe(k) ==
    /\ k \in 1..Len(pendingFetches)
    /\ ~pendingFetches[k].served
    /\ pendingFetches' = [pendingFetches EXCEPT ![k] = [served |-> TRUE, data |-> store]]
    /\ UNCHANGED <<store, myBookshelf, ctl, drag, lastMove, lastEnd, earlier,
                   pendingCommits, gestureCommits, gesturesLeft, probe, viewVars,
                   adminVars>>

\* fetchBookshelf: setMyBookshelf(res.data).  The new state renders: the drawing
\* effect empties the svg and draws the guide, hidden, and one image per book; a
\* gesture under way keeps the handlers, the books, the guide and the image it
\* started with
FetchResolve(k) ==
    /\ k \in 1..Len(pendingFetches)
    /\ pendingFetches[k].served
    /\ myBookshelf' = pendingFetches[k].data
    /\ pendingFetches' = RemoveAt(pendingFetches, k)
    /\ shown' = booksWithPosition(books(myBookshelf'))
    /\ guide' = IF ctl = "DRAGGING" THEN guide ELSE NewGuide
    /\ drag' = IF ctl = "DRAGGING"
               THEN [drag EXCEPT !.attached = FALSE, !.kept = shown']
               ELSE drag
    /\ UNCHANGED <<store, ctl, lastMove, lastEnd, earlier, pendingCommits,
                   gestureCommits, gesturesLeft, probe, adminVars>>

\* mutant: the catch block also empties the shelf state
FetchRejectClears(k) ==
    /\ k \in 1..Len(pendingFetches)
    /\ pendingFetches' = RemoveAt(pendingFetches, k)
    /\ myBookshelf' = EmptyShelf
    /\ UNCHANGED <<store, ctl, drag, lastMove, lastEnd, earlier,
                   pendingCommits, gestureCommits, gesturesLeft, probe, viewVars,
                   adminVars>>

\* fetchBookshelf: the catch block only logs
FetchReject(k) ==
    /\ k \in 1..Len(pendingFetches)
    /\ pendingFetches' = RemoveAt(pendingFetches, k)
    /\ UNCHANGED <<store, myBookshelf, ctl, drag, lastMove, lastEnd, earlier,
                   pendingCommits, gestureCommits, gesturesLeft, probe, viewVars,
                   adminVars>>

(***************************************************************************)
(* The shelf controls: the capacity form and the add row / remove row      *)
(* buttons.  A request is [op, arg]; op is "capacity", "add" or "remove".  *)
(***************************************************************************)
\* add_per_shelf, add_shelves, remove_shelves: what the backend agrees to
BackendAccepts(st, req) ==
    CASE req.op = "capacity" ->
            /\ req.arg >= 1
            /\ \A i \in 1..Len(st.books) : st.books[i].y < req.arg
      [] req.op = "add" -> TRUE
      [] req.op = "remove" ->
            /\ st.total_shelves >= 1
            /\ \A i \in 1..Len(st.books) : st.books[i].x # st.total_shelves - 1

BackendApply(st, req) ==
    CASE req.op = "capacity" -> [st EXCEPT !.books_per_shelf = req.arg]
      [] req.op = "add" -> [st EXCEPT !.total_shelves = @ + 1]
      [] req.op = "remove" -> [st EXCEPT !.total_shelves = @ - 1]

\* the controls are used between gestures; the bounds cap the requests
ControlsUsable ==
    /\ ctl = "IDLE"
    /\ InFlight < MaxInFlight
    /\ alerts + unhandled < MaxFailures

\* onClick={() => updateShelfLayout(parseInt(inputValue))}, up to its await
updateShelfLayout(newSize) ==
    /\ ControlsUsable
    /\ pendingAdmin' = Append(pendingAdmin, [op |-> "capacity", arg |-> newSize])
    /\ UNCHANGED <<store, myBookshelf, ctl, drag, lastMove, lastEnd, earlier,
                   pendingCommits, pendingFetches, gestureCommits, gesturesLeft, probe,
                   viewVars, alerts, unhandled, lastAdmin>>

\* onClick={addShelfRow}, up to its await
addShelfRow ==
    /\ ControlsUsable
    /\ store.total_shelves < MaxShelves
    /\ pendingAdmin' = Append(pendingAdmin, [op |-> "add", arg |-> 0])
    /\ UNCHANGED <<store, myBookshelf, ctl, drag, lastMove, lastEnd, earlier,
                   pendingCommits, pendingFetches, gestureCommits, gesturesLeft, probe,
                   viewVars, alerts, unhandled, lastAdmin>>

\* onClick={handleRemoveRow}: await removeShelfRow(), up to its await
handleRemoveRow ==
    /\ ControlsUsable
    /\ pendingAdmin' = Append(pendingAdmin, [op |-> "remove", arg |-> 0])
    /\ UNCHANGED <<store, myBookshelf, ctl, drag, lastMove, lastEnd, earlier,
                   pendingCommits, pendingFetches, gestureCommits, gesturesLeft, probe,
                   viewVars, alerts, unhandled, lastAdmin>>

\* mutant: removeShelfRow also rethrows, so handleRemoveRow's catch alerts again
AlertsOnFailureRethrown(op) == IF op = "remove" THEN 2 ELSE 0

\* alert() calls when the POST fails: removeShelfRow's catch alerts and returns,
\* so the catch of handleRemoveRow never runs; updateShelfLayout and addShelfRow
\* have no catch and neither have the onClick handlers that call them
AlertsOnFailure(op) == IF op = "remove" THEN 1 ELSE 0

\* rejected promises nobody handles when the POST fails
UnhandledOnFailure(op) == IF op = "remove" THEN 0 ELSE 1

\* the POST is answered: the await returns and fetchBookshelf() is called
AdminResolve(k) ==
    /\ k \in 1..Len(pendingAdmin)
    /\ BackendAccepts(store, pendingAdmin[k])
    /\ store' = BackendApply(store, pendingAdmin[k])
    /\ pendingAdmin' = RemoveAt(pendingAdmin, k)
    /\ pendingFetches' = Append(pendingFetches, FetchSent)
    /\ lastAdmin' = [op |-> pendingAdmin[k].op, ok |-> TRUE, why |-> "none"]
    /\ UNCHANGED <<myBookshelf, ctl, drag, lastMove, lastEnd, earlier, pendingCommits,
                   gestureCommits, gesturesLeft, probe, viewVars, alerts, unhandled>>

\* the POST fails, refused by the backend ("backend") or not answered ("network"):
\* the await throws
AdminReject(k, why) ==
    /\ k \in 1..Len(pendingAdmin)
    /\ why = "backend" => ~BackendAccepts(store, pendingAdmin[k])
    /\ pendingAdmin' = RemoveAt(pendingAdmin, k)
    /\ alerts' = alerts + AlertsOnFailure(pendingAdmin[k].op)
    /\ unhandled' = unhandled + UnhandledOnFailure(pendingAdmin[k].op)
    /\ lastAdmin' = [op |-> pendingAdmin[k].op, ok |-> FALSE, why |-> why]
    /\ UNCHANGED <<store, myBookshelf, ctl, drag, lastMove, lastEnd, earlier,
                   pendingCommits, pendingFetches, gestureCommits, gesturesLeft, probe,
                   viewVars>>

Controls ==
    \/ \E newSize \in 1..MaxCols : updateShelfLayout(newSize)
    \/ addShelfRow
    \/ handleRemoveRow
    \/ \E k \in 1..MaxInFlight : AdminResolve(k)
    \/ \E k \in 1..MaxInFlight, why \in {"backend", "network"} : AdminReject(k, why)

\* event.dx of the "end" event: the pointer's step between the last move and release
DxValues == {-1, 0}

Network ==
    \/ \E k \in 1..MaxInFlight : CommitResolve(k)
    \/ \E k \in 1..MaxInFlight : CommitReject(k)
    \/ \E k \in 1..MaxInFlight : FetchServe(k)
    \/ \E k \in 1..MaxInFlight : FetchResolve(k)
    \/ \E k \in 1..MaxInFlight : FetchReject(k)

Next ==
    \/ \E i \in 1..NumBooks : Start(i)
    \/ \E newX \in DragXs(drag.bps), newY \in DragYs(drag.shelfCount) :
          Move(newX, newY, FALSE)
    \/ \E dragDx \in DxValues : End(dragDx)
    \/ Network

Spec == Init /\ [][Next]_vars

(***************************************************************************)
(* The gesture with the history variable in use, started on the full and  *)
(* the nearly full shelves: any one "drag" event of the gesture is kept.   *)
(***************************************************************************)
InitHistory ==
    /\ \E sc \in 1..MaxShelves, bps \in 1..MaxCols :
         /\ sc * bps \in {NumBooks, NumBooks + 1}
         /\ \E bs \in StoreLayouts(sc, bps) :
              /\ Len(bs) = NumBooks
              /\ store = [books |-> bs, books_per_shelf |-> bps, total_shelves |-> sc]
    /\ gesturesLeft = MaxGestures
    /\ Constructed

NextHistory ==
    \/ \E i \in 1..NumBooks : Start(i)
    \/ \E newX \in DragXs(drag.bps), newY \in DragYs(drag.shelfCount),
          keep \in {FALSE, ~earlier.done} :
          Move(newX, newY, keep)
    \/ \E k \in 1..MaxInFlight : FetchServe(k)
    \/ \E k \in 1..MaxInFlight : FetchResolve(k)
    \/ \E k \in 1..MaxInFlight : FetchReject(k)

SpecHistory == InitHistory /\ [][NextHistory]_vars

(***************************************************************************)
(* The same system under the assumption that every sync-layout POST is     *)
(* settled, answered or failed, by the browser.                            *)
(***************************************************************************)
CommitSettles == \E k \in 1..MaxInFlight : CommitResolve(k) \/ CommitReject(k)

SpecLive == Init /\ [][Next]_vars /\ WF_vars(CommitSettles)

(***************************************************************************)
(* The shelf with at most one book, its controls in use beside the gesture.*)
(***************************************************************************)
InitControls ==
    /\ \E sc \in 1..MaxShelves, bps \in 1..MaxCols :
         \E bs \in StoreLayouts(sc, bps) :
            /\ Len(bs) <= 1
            /\ store = [books |-> bs, books_per_shelf |-> bps, total_shelves |-> sc]
    /\ gesturesLeft = MaxGestures
    /\ Constructed

NextControls ==
    \/ Next
    \/ Controls

SpecControls == InitControls /\ [][NextControls]_vars

(***************************************************************************)
(* Two books on one shelf and one gesture more: a gesture can start while  *)
(* the requests of the one before are in flight.                           *)
(***************************************************************************)
InitOverlap ==
    /\ \E bps \in 2..MaxCols :
         \E bs \in StoreLayouts(1, bps) :
            /\ Len(bs) = 2
            /\ store = [books |-> bs, books_per_shelf |-> bps, total_shelves |-> 1]
    /\ gesturesLeft = MaxGestures + 1
    /\ Constructed

SpecOverlap == InitOverlap /\ [][Next]_vars

(***************************************************************************)
(* The packed shelf: MaxShelves rows of MaxCols - 1 columns, a book in     *)
(* every cell (book k in cell k - 1, counted row by row).                  *)
(***************************************************************************)
PackedBooks(sc, bps) ==
    [k \in 1..(sc * bps) |-> [isbn |-> k, x |-> (k - 1) \div bps, y |-> (k - 1) % bps]]

InitPacked ==
    /\ store = [books |-> PackedBooks(MaxShelves, MaxCols - 1),
                books_per_shelf |-> MaxCols - 1, total_shelves |-> MaxShelves]
    /\ gesturesLeft = MaxGestures
    /\ Constructed

SpecPacked == InitPacked /\ [][Next]_vars

(***************************************************************************)
(* The coordinate mapper alone, applied to pixel positions in and around   *)
(* the shelf and to the cells of the grid.                                 *)
(***************************************************************************)
WIDTH(bps) == bps * BOOK_WIDTH + FRAME_THICKNESS * 2
HEIGHT(sc) == unitShelfHeight * sc + FRAME_THICKNESS * (sc + 1)

PixelXs == (0 - PixelMargin)..(WIDTH(MaxCols) + PixelMargin)
PixelYs == (0 - PixelMargin)..(HEIGHT(MaxShelves) + PixelMargin)

\* the pixel columns and rows at which the cell changes, and their neighbours
EdgeXs == {FRAME_THICKNESS + c * BOOK_WIDTH + d : c \in (-1)..(MaxCols + 1), d \in {-1, 0}}
EdgeYs == {FRAME_THICKNESS + r * (unitShelfHeight + FRAME_THICKNESS) + d :
              r \in (-1)..(MaxShelves + 1), d \in {-1, 0}}

InitMapper ==
    /\ store = EmptyShelf
    /\ gesturesLeft = MaxGestures
    /\ Constructed

MapPixel(pxX, pxY, sc, bps) ==
    /\ probe' = [kind |-> "pixel", inX |-> pxX, inY |-> pxY, sc |-> sc, bps |-> bps,
                 cell |-> getGridPos(pxX, pxY, sc, bps)]
    /\ UNCHANGED <<store, myBookshelf, ctl, drag, lastMove, lastEnd, earlier,
                   pendingCommits, pendingFetches, gestureCommits, gesturesLeft,
                   viewVars, adminVars>>

\* the handlers' target for an image drawn at the cell (row, col)
MapCell(row, col, sc, bps) ==
    /\ row \in 0..(sc - 1)
    /\ col \in 0..(bps - 1)
    /\ probe' = [kind |-> "cell", inX |-> row, inY |-> col, sc |-> sc, bps |-> bps,
                 cell |-> TargetOf(getPhysPos(row, col).x, getPhysPos(row, col).y,
                                   sc, bps)]
    /\ UNCHANGED <<store, myBookshelf, ctl, drag, lastMove, lastEnd, earlier,
                   pendingCommits, pendingFetches, gestureCommits, gesturesLeft,
                   viewVars, adminVars>>

\* one application of the mapper per behaviour
NextMapper ==
    \/ /\ probe.kind = "none"
       /\ \E sc \in 1..MaxShelves, bps \in 1..MaxCols :
             \E p \in (PixelXs \X EdgeYs) \cup (EdgeXs \X PixelYs) :
                MapPixel(p[1], p[2], sc, bps)
    \/ /\ probe.kind = "none"
       /\ \E sc \in 1..MaxShelves, bps \in 1..MaxCols :
             \E row \in 0..(MaxShelves - 1), col \in 0..(MaxCols - 1) :
                MapCell(row, col, sc, bps)

SpecMapper == InitMapper /\ [][NextMapper]_vars

(***************************************************************************)
(* Vocabulary of the properties.                                           *)
(***************************************************************************)
\* a list of books as a set of <<isbn, row, column>>
Placed(seq) == {<<seq[i].isbn, seq[i].x, seq[i].y>> : i \in 1..Len(seq)}

Others(seq, m) == {b \in Placed(seq) : b[1] # m}

CellOf(seq, m) ==
    LET i == CHOOSE i \in 1..Len(seq) : seq[i].isbn = m IN [row |-> seq[i].x, col |-> seq[i].y]

\* at most one item per cell, every item within the grid
ValidLayout(seq, sc, bps) ==
    \A i \in 1..Len(seq) :
        /\ seq[i].x \in 0..(sc - 1)
        /\ seq[i].y \in 0..(bps - 1)
        /\ \A j \in 1..Len(seq) : (seq[j].x = seq[i].x /\ seq[j].y = seq[i].y) => j = i

\* the layout a successful "drag" event shows: the scratch Map and the mover at the target
MoveResult ==
    lastMove.virtualPositions \o
        <<[isbn |-> drag.isbn, x |-> lastMove.target.row, y |-> lastMove.target.col]>>

MoveDone == ctl = "DRAGGING" /\ lastMove.done

MoveInputValid == ValidLayout(drag.books, drag.shelfCount, drag.bps)

EndInputValid == ValidLayout(lastEnd.books, lastEnd.shelfCount, lastEnd.bps)

\* the body of the sync-layout POST the latest "end" event issued
Committed == pendingCommits[Len(pendingCommits)]

EndDisplaced == Others(lastEnd.finalPositions, lastEnd.isbn) \ Others(lastEnd.books, lastEnd.isbn)

(***************************************************************************)
(* C1: whenever the resolver of a "drag" or an "end" event succeeds on a   *)
(* layout with at most one item per cell and all items within the grid,    *)
(* the resulting layout, mover at the target, has no two items in one cell *)
(* and every item within 0 <= row < shelfCount, 0 <= column < booksPerShelf*)
(***************************************************************************)
C1_OccupancyInvariant ==
    /\ (MoveDone /\ lastMove.canPush /\ MoveInputValid)
          => ValidLayout(MoveResult, drag.shelfCount, drag.bps)
    /\ (lastEnd.done /\ lastEnd.pushed /\ EndInputValid)
          => ValidLayout(lastEnd.finalPositions, lastEnd.shelfCount, lastEnd.bps)

C1_Witness ==
    /\ lastEnd.done /\ lastEnd.pushed /\ EndInputValid
    /\ lastEnd.preview.done /\ lastEnd.preview.canPush
    /\ EndDisplaced # {}

(***************************************************************************)
(* C2: atomicity.  A failed directional attempt leaves every item where it *)
(* was: after the preferred attempt fails the working layout is the input  *)
(* layout, and when both attempts fail the resulting layout is the input   *)
(* layout; at "end" the body sent to sync-layout is then the authoritative *)
(* layout, the mover in its original cell.                                 *)
(***************************************************************************)
C2_Atomicity ==
    /\ (MoveDone /\ ~lastMove.firstOk)
          => Placed(lastMove.mid) = Others(drag.books, drag.isbn)
    /\ (MoveDone /\ ~lastMove.canPush)
          => Placed(lastMove.virtualPositions) = Others(drag.books, drag.isbn)
    /\ (lastEnd.done /\ ~lastEnd.firstOk)
          => Placed(lastEnd.mid) = Placed(lastEnd.books)
    /\ (lastEnd.done /\ ~lastEnd.pushed)
          => /\ Placed(lastEnd.finalPositions) = Placed(lastEnd.books)
             /\ pendingCommits # <<>>
             /\ Placed(Committed) = Placed(lastEnd.books)
             /\ CellOf(Committed, lastEnd.isbn) = CellOf(lastEnd.books, lastEnd.isbn)

C2_Witness ==
    /\ lastEnd.done /\ ~lastEnd.pushed
    /\ lastEnd.preview.done /\ ~lastEnd.preview.canPush
    /\ lastEnd.target # CellOf(lastEnd.books, lastEnd.isbn)

(***************************************************************************)
(* C3: the two resolvers agree.  When the "end" event has the direction    *)
(* sign of the gesture's last "drag" event (the target is the same), the   *)
(* final resolver returns what the preview resolver returned and, on       *)
(* success, gives every non-moving item the same cell.                     *)
(***************************************************************************)
C3_ResolversAgree ==
    (lastEnd.done /\ lastEnd.preview.done /\ (lastEnd.dx >= 0) = lastEnd.preview.right)
       => /\ lastEnd.pushed = lastEnd.preview.canPush
          /\ lastEnd.target = lastEnd.preview.target
          /\ lastEnd.pushed
                => Others(lastEnd.finalPositions, lastEnd.isbn)
                      = Placed(lastEnd.preview.virtualPositions)

C3_Witness ==
    /\ lastEnd.done /\ lastEnd.preview.done
    /\ (lastEnd.dx >= 0) = lastEnd.preview.right
    /\ lastEnd.dx < 0
    /\ lastEnd.pushed
    /\ EndDisplaced # {}

(***************************************************************************)
(* C4: on success the mover is at the target; the displaced items are      *)
(* exactly the maximal contiguous run of other items of the target row     *)
(* that starts at the target cell and extends in one direction, each moved *)
(* one column in that direction, its row unchanged; every other item keeps *)
(* its cell.                                                               *)
(***************************************************************************)
OccupiedByOther(bs, m, row, c) == \E o \in Others(bs, m) : o[2] = row /\ o[3] = c

ChainRun(bs, m, t, d) ==
    {b \in Others(bs, m) :
        /\ b[2] = t.row
        /\ (b[3] - t.col) * d >= 0
        /\ \A c \in Min(t.col, b[3])..Max(t.col, b[3]) : OccupiedByOther(bs, m, t.row, c)}

ShiftedRun(bs, m, t, d) ==
    {IF b \in ChainRun(bs, m, t, d) THEN <<b[1], b[2], b[3] + d>> ELSE b :
        b \in Others(bs, m)}

C4_ChainCorrect ==
    /\ (MoveDone /\ lastMove.canPush /\ MoveInputValid)
          => \E d \in {-1, 1} :
                Placed(lastMove.virtualPositions)
                   = ShiftedRun(drag.books, drag.isbn, lastMove.target, d)
    /\ (lastEnd.done /\ lastEnd.pushed /\ EndInputValid)
          => /\ CellOf(lastEnd.finalPositions, lastEnd.isbn) = lastEnd.target
             /\ \E d \in {-1, 1} :
                   Others(lastEnd.finalPositions, lastEnd.isbn)
                      = ShiftedRun(lastEnd.books, lastEnd.isbn, lastEnd.target, d)

C4_Witness ==
    /\ lastEnd.done /\ lastEnd.pushed /\ EndInputValid
    /\ Cardinality(EndDisplaced) = 2
    /\ lastEnd.shelfCount > 1

(***************************************************************************)
(* C5: direction selection.  With dx >= 0 the rightward chain is tried     *)
(* first and the leftward one only if it fails; with dx < 0 the order is   *)
(* reversed; the result is the first chain that succeeds.  In the 1x3 grid *)
(* with books 1, 2, 3 at columns 0, 1, 2, moving book 1 to column 1 with   *)
(* dx >= 0 resolves leftward to 1@1, 2@0, 3@2.                             *)
(***************************************************************************)
RightFeasible(bs, m, t, bps) ==
    \E c \in t.col..(bps - 1) : ~OccupiedByOther(bs, m, t.row, c)

LeftFeasible(bs, m, t) ==
    \E c \in 0..t.col : ~OccupiedByOther(bs, m, t.row, c)

PreferredFeasible(bs, m, t, right, bps) ==
    IF right THEN RightFeasible(bs, m, t, bps) ELSE LeftFeasible(bs, m, t)

ExpectedDir(bs, m, t, right, bps) ==
    IF right THEN (IF RightFeasible(bs, m, t, bps) THEN 1 ELSE -1)
    ELSE (IF LeftFeasible(bs, m, t) THEN -1 ELSE 1)

ExampleBooks ==
    <<[isbn |-> 1, x |-> 0, y |-> 0], [isbn |-> 2, x |-> 0, y |-> 1],
      [isbn |-> 3, x |-> 0, y |-> 2]>>

ExampleEnd ==
    /\ lastEnd.done
    /\ lastEnd.books = ExampleBooks
    /\ lastEnd.bps = Len(ExampleBooks)
    /\ lastEnd.isbn = 1
    /\ lastEnd.target = [row |-> 0, col |-> 1]
    /\ lastEnd.dx >= 0

C5_DirectionOrder ==
    /\ (MoveDone /\ MoveInputValid)
          => /\ lastMove.firstOk
                  = PreferredFeasible(drag.books, drag.isbn, lastMove.target,
                                      lastMove.right, drag.bps)
             /\ lastMove.canPush
                  => Placed(lastMove.virtualPositions)
                        = ShiftedRun(drag.books, drag.isbn, lastMove.target,
                             ExpectedDir(drag.books, drag.isbn, lastMove.target,
                                         lastMove.right, drag.bps))
    /\ (lastEnd.done /\ EndInputValid)
          => /\ lastEnd.firstOk
                  = PreferredFeasible(lastEnd.books, lastEnd.isbn, lastEnd.target,
                                      lastEnd.dx >= 0, lastEnd.bps)
             /\ lastEnd.pushed
                  => Others(lastEnd.finalPositions, lastEnd.isbn)
                        = ShiftedRun(lastEnd.books, lastEnd.isbn, lastEnd.target,
                             ExpectedDir(lastEnd.books, lastEnd.isbn, lastEnd.target,
                                         lastEnd.dx >= 0, lastEnd.bps))
    /\ ExampleEnd
          => /\ lastEnd.pushed /\ ~lastEnd.firstOk
             /\ Placed(lastEnd.finalPositions) = {<<1, 0, 1>>, <<2, 0, 0>>, <<3, 0, 2>>}

C5_Witness == ExampleEnd /\ lastEnd.preview.done /\ lastEnd.preview.right

(***************************************************************************)
(* C6: resolving with the target equal to the mover's own cell succeeds    *)
(* for either sign of dx and leaves the layout, and the layout committed   *)
(* at "end", identical to the input layout.                                *)
(***************************************************************************)
C6_NoOp ==
    /\ (MoveDone /\ MoveInputValid /\ lastMove.target = CellOf(drag.books, drag.isbn))
          => /\ lastMove.canPush
             /\ Placed(lastMove.virtualPositions) = Others(drag.books, drag.isbn)
    /\ (lastEnd.done /\ EndInputValid
           /\ lastEnd.target = CellOf(lastEnd.books, lastEnd.isbn))
          => /\ lastEnd.pushed
             /\ Placed(lastEnd.finalPositions) = Placed(lastEnd.books)
             /\ pendingCommits # <<>>
             /\ Placed(Committed) = Placed(lastEnd.books)

C6_Witness ==
    /\ lastEnd.done
    /\ lastEnd.target = CellOf(lastEnd.books, lastEnd.isbn)
    /\ lastEnd.preview.done
    /\ lastEnd.dx < 0
    /\ Len(lastEnd.books) = NumBooks

(***************************************************************************)
(* C7: getGridPos is total and clamped: for every integer pixel position,  *)
(* also a negative one and one beyond the shelf's width or height, it      *)
(* returns a cell with 0 <= row <= shelfCount-1, 0 <= col <= booksPerShelf *)
(* -1; a position left of / above the first column / row maps to column /  *)
(* row 0, one right of / below the last maps to the last column / row.     *)
(***************************************************************************)
C7_Clamped ==
    probe.kind = "pixel"
       => /\ probe.cell.row \in 0..(probe.sc - 1)
          /\ probe.cell.col \in 0..(probe.bps - 1)
          /\ probe.inX < FRAME_THICKNESS => probe.cell.col = 0
          /\ probe.inY < FRAME_THICKNESS => probe.cell.row = 0
          /\ probe.inX >= WIDTH(probe.bps) - FRAME_THICKNESS
                => probe.cell.col = probe.bps - 1
          /\ probe.inY >= HEIGHT(probe.sc) - FRAME_THICKNESS
                => probe.cell.row = probe.sc - 1

C7_Witness ==
    /\ probe.kind = "pixel"
    /\ probe.inX < 0
    /\ probe.inY >= HEIGHT(probe.sc)
    /\ probe.sc > 1 /\ probe.bps > 1
    /\ probe.cell = [row |-> probe.sc - 1, col |-> 0]

(***************************************************************************)
(* C8: for every valid cell (row, col), getGridPos of getPhysPos(row, col) *)
(* shifted by half a cell (BOOK_WIDTH/2, BOOK_HEIGHT/2), the handlers'     *)
(* target, is (row, col).                                                  *)
(***************************************************************************)
C8_RoundTrip ==
    probe.kind = "cell" => probe.cell = [row |-> probe.inX, col |-> probe.inY]

C8_Witness ==
    /\ probe.kind = "cell"
    /\ probe.inX = MaxShelves - 1 /\ probe.inY = MaxCols - 1
    /\ probe.sc = MaxShelves /\ probe.bps = MaxCols
    /\ probe.cell = [row |-> MaxShelves - 1, col |-> MaxCols - 1]

(***************************************************************************)
(* C9: history independence of "drag" events.  Two "drag" events of        *)
(* gestures on the same authoritative layout and mover with the same       *)
(* target cell and the same direction sign compute the same outcome        *)
(* (success and the virtual cells of all items), whatever events came      *)
(* before each of them.                                                    *)
(***************************************************************************)
SameMoveEvent ==
    /\ MoveDone /\ earlier.done
    /\ earlier.target = lastMove.target
    /\ earlier.right = lastMove.right

C9_HistoryIndependent ==
    SameMoveEvent
       => /\ earlier.canPush = lastMove.canPush
          /\ earlier.virtualPositions = lastMove.virtualPositions

C9_Witness ==
    /\ SameMoveEvent
    /\ lastMove.canPush
    /\ Placed(lastMove.virtualPositions) # Others(drag.books, drag.isbn)

(***************************************************************************)
(* C10: "start" and "drag" events leave the in-memory layout unchanged and *)
(* issue no request; a sync-layout request is issued only by an "end"      *)
(* event, and every gesture issues exactly one.                            *)
(***************************************************************************)
\* a step that is a "drag" event: the gesture goes on, at a new position or
\* with a new outcome
MoveStep ==
    /\ ctl = "DRAGGING" /\ ctl' = "DRAGGING"
    /\ lastMove'.done
    /\ <<drag.x, drag.y, lastMove>>' # <<drag.x, drag.y, lastMove>>

StartOrMoveStep ==
    \/ ctl = "IDLE" /\ ctl' = "DRAGGING"
    \/ MoveStep

C10_Step ==
    /\ StartOrMoveStep
          => UNCHANGED <<myBookshelf, store, pendingCommits, pendingFetches>>
    /\ Len(pendingCommits') > Len(pendingCommits)
          => /\ ctl = "DRAGGING" /\ ctl' = "IDLE"
             /\ Len(pendingCommits') = Len(pendingCommits) + 1
    /\ ctl' = "DRAGGING" => gestureCommits' = 0
    /\ (ctl = "DRAGGING" /\ ctl' = "IDLE") => gestureCommits' = 1

C10_CommitOnlyAtEnd == [][C10_Step]_vars

C10_Witness ==
    /\ ctl = "IDLE"
    /\ lastEnd.done /\ lastEnd.preview.done
    /\ gestureCommits = 1
    /\ Len(pendingCommits) = 1
    /\ myBookshelf.books = lastEnd.books


(***************************************************************************)
(* C11: every "end" event sends the full layout, whether the resolver      *)
(* succeeded or failed, and leaves the gesture; when the sync-layout       *)
(* request settles, answered or failed, exactly one refresh                *)
(* (fetchBookshelf) is issued and nothing is alerted or left unhandled; no *)
(* refresh is issued otherwise; every pending commit eventually settles.   *)
(***************************************************************************)
IsbnsOf(seq) == {seq[i].isbn : i \in 1..Len(seq)}

C11_EndStep ==
    (ctl = "DRAGGING" /\ ctl' = "IDLE")
       => /\ Len(pendingCommits') = Len(pendingCommits) + 1
          /\ IsbnsOf(pendingCommits'[Len(pendingCommits')]) = IsbnsOf(drag.books)
          /\ lastEnd'.done
          /\ pendingFetches' = pendingFetches

C11_SettleStep ==
    Len(pendingCommits') < Len(pendingCommits)
       => /\ Len(pendingCommits') = Len(pendingCommits) - 1
          /\ Len(pendingFetches') = Len(pendingFetches) + 1
          /\ pendingFetches'[Len(pendingFetches')] = FetchSent
          /\ alerts' = alerts /\ unhandled' = unhandled
          /\ ctl' = ctl

C11_RefreshStep ==
    Len(pendingFetches') > Len(pendingFetches)
       => Len(pendingCommits') < Len(pendingCommits)

C11_CommitThenRefresh ==
    /\ [][C11_EndStep /\ C11_SettleStep /\ C11_RefreshStep]_vars
    /\ (pendingCommits # <<>>) ~> (pendingCommits = <<>> /\ ctl = "IDLE")

C11_Witness ==
    /\ gestureCommits = 1
    /\ pendingCommits = <<>>
    /\ Len(pendingFetches) = 1 /\ ~pendingFetches[1].served
    /\ ctl = "IDLE"
    /\ store.books = myBookshelf.books
    /\ \E i \in 1..Len(shown) :
          <<shown[i].x, shown[i].y>> #
             <<getPhysPos(store.books[i].x, store.books[i].y).x,
               getPhysPos(store.books[i].x, store.books[i].y).y>>


(***************************************************************************)
(* C12: the layout an "end" event resolves on is the store's current       *)
(* layout: while its commit is pending, every book that is neither the     *)
(* mover nor displaced by the event has in the committed layout the cell   *)
(* it has in the store, so that no commit overwrites the effect of an      *)
(* earlier commit with stale positions.                                    *)
(***************************************************************************)
C12_Untouched ==
    {b \in Placed(Committed) : b[1] # lastEnd.isbn /\ b \in Placed(lastEnd.books)}

C12_CommitOnCurrentLayout ==
    (lastEnd.done /\ pendingCommits # <<>>) => C12_Untouched \subseteq Placed(store.books)


(***************************************************************************)
(* C13: when a set-capacity (updateShelfLayout) or add-row (addShelfRow)   *)
(* request fails, the caller surfaces the failure to the user, the         *)
(* in-memory shelf state is unchanged and no re-fetch is triggered.        *)
(***************************************************************************)
AdminFails(ops) ==
    /\ Len(pendingAdmin') < Len(pendingAdmin)
    /\ ~lastAdmin'.ok
    /\ lastAdmin'.op \in ops

AdminSucceeds(ops) ==
    /\ Len(pendingAdmin') < Len(pendingAdmin)
    /\ lastAdmin'.ok
    /\ lastAdmin'.op \in ops

C13_Step ==
    AdminFails({"capacity", "add"})
       => /\ alerts' = alerts + 1
          /\ unhandled' = unhandled
          /\ myBookshelf' = myBookshelf
          /\ pendingFetches' = pendingFetches

C13_FailureSurfaced == [][C13_Step]_vars

(***************************************************************************)
(* C14: when a remove-row request fails, the user is shown the reason      *)
(* exactly once (one alert, nothing left unhandled), the in-memory shelf   *)
(* state is unchanged and no re-fetch is triggered; when it succeeds, one  *)
(* re-fetch is issued and nothing is alerted.                              *)
(***************************************************************************)
C14_Step ==
    /\ AdminFails({"remove"})
          => /\ alerts' = alerts + 1
             /\ unhandled' = unhandled
             /\ myBookshelf' = myBookshelf
             /\ pendingFetches' = pendingFetches
    /\ AdminSucceeds({"remove"})
          => /\ alerts' = alerts
             /\ unhandled' = unhandled
             /\ pendingFetches' = Append(pendingFetches, FetchSent)

C14_RemoveRow == [][C14_Step]_vars

C14_Witness ==
    /\ lastAdmin = [op |-> "remove", ok |-> FALSE, why |-> "backend"]
    /\ \E i \in 1..Len(store.books) : store.books[i].x = store.total_shelves - 1
    /\ alerts = 1 /\ unhandled = 0
    /\ pendingFetches = <<>>
    /\ myBookshelf = store

(***************************************************************************)
(* C15: when a layout fetch fails, the in-memory shelf state (books, row   *)
(* count, capacity) is unchanged and nothing reaches the caller: no alert, *)
(* no unhandled rejection, no other request touched.  The fetches are      *)
(* those of the mount, of a settled drag commit and of the shelf controls. *)
(***************************************************************************)
C15_Step ==
    (\E k \in 1..MaxInFlight : FetchReject(k))
       => /\ myBookshelf' = myBookshelf
          /\ shown' = shown
          /\ alerts' = alerts /\ unhandled' = unhandled
          /\ pendingCommits' = pendingCommits /\ pendingAdmin' = pendingAdmin
          /\ Len(pendingFetches') = Len(pendingFetches) - 1

C15_FetchFailure == [][C15_Step]_vars

C15_Witness ==
    /\ gestureCommits = 1
    /\ pendingCommits = <<>> /\ pendingFetches = <<>> /\ pendingAdmin = <<>>
    /\ store.books # myBookshelf.books
    /\ myBookshelf # EmptyShelf
    /\ alerts = 0 /\ unhandled = 0


(***************************************************************************)
(* C16: a "drag" event whose resolve fails in both directions hides the    *)
(* guide and leaves the displayed position of every book other than the    *)
(* mover exactly as it was before the event; one whose resolve succeeds    *)
(* shows the guide at the target cell and displays every other book at its *)
(* cell of that event's virtual layout.                                    *)
(***************************************************************************)
ShownOthers(sh, m) ==
    {<<sh[i].isbn, sh[i].x, sh[i].y>> : i \in {j \in 1..Len(sh) : sh[j].isbn # m}}

PhysOf(cells) == {<<b[1], getPhysPos(b[2], b[3]).x, getPhysPos(b[2], b[3]).y>> : b \in cells}

C16_Step ==
    MoveStep
       => IF lastMove'.canPush
          THEN /\ guide'.visibility = "visible"
               /\ <<guide'.x, guide'.y>> =
                     <<getPhysPos(lastMove'.target.row, lastMove'.target.col).x,
                       getPhysPos(lastMove'.target.row, lastMove'.target.col).y>>
               /\ ShownOthers(shown', drag.isbn) = PhysOf(Placed(lastMove'.virtualPositions))
          ELSE /\ guide'.visibility = "hidden"
               /\ ShownOthers(shown', drag.isbn) = ShownOthers(shown, drag.isbn)

C16_PreviewDisplay == [][C16_Step]_vars

C16_Witness ==
    /\ MoveDone /\ ~lastMove.canPush
    /\ guide.visibility = "hidden"
    /\ guide.x # 0
    /\ Len(drag.books) = NumBooks


(***************************************************************************)
(* C20 as claimed: after any sequence of "drag" events of a gesture, if    *)
(* the resolve of the most recent one failed (guide hidden), every book    *)
(* other than the mover is displayed at its cell of the authoritative      *)
(* layout: no displacement previewed by an earlier successful event is     *)
(* left on screen.                                                         *)
(***************************************************************************)
C20_NoStalePreview ==
    (MoveDone /\ ~lastMove.canPush /\ guide.visibility = "hidden")
       => ShownOthers(shown, drag.isbn) = PhysOf(Others(drag.books, drag.isbn))

(***************************************************************************)
(* C20 as amended: if the resolve of the most recent "drag" event failed,  *)
(* every book other than the mover is displayed where the latest           *)
(* successful "drag" event of the gesture put it or, if there was none     *)
(* since the gesture started or the view was last rendered, where the      *)
(* start or that render displayed it: a displacement previewed by an       *)
(* earlier successful event stays on screen.                               *)
(***************************************************************************)
C20_PreviewKept ==
    (MoveDone /\ ~lastMove.canPush)
       => /\ guide.visibility = "hidden"
          /\ ShownOthers(shown, drag.isbn) = ShownOthers(drag.kept, drag.isbn)

C20_Witness ==
    /\ MoveDone /\ ~lastMove.canPush
    /\ drag.attached
    /\ ShownOthers(shown, drag.isbn) # PhysOf(Others(drag.books, drag.isbn))


(***************************************************************************)
(* C17: the push direction the "end" event resolves with is the direction  *)
(* (sign of dx) of the last "drag" event of the same gesture, so the       *)
(* layout committed by a successful "end" is the layout that last "drag"   *)
(* event previewed.                                                        *)
(***************************************************************************)
C17_DirectionOfLastMove ==
    (lastEnd.done /\ lastEnd.preview.done)
       => /\ (lastEnd.dx >= 0) = lastEnd.preview.right
          /\ lastEnd.pushed
                => Others(lastEnd.finalPositions, lastEnd.isbn)
                      = Placed(lastEnd.preview.virtualPositions)


(***************************************************************************)
(* C18: on a valid layout every directional push of a resolve terminates   *)
(* after at most booksPerShelf nested calls: the calls visit columns of    *)
(* the grid in the target row, from the target column on, each one column  *)
(* further right (rightward push) or left (leftward push) than the one     *)
(* before; every column but the last holds another book; the push          *)
(* succeeds at a column free of other books and fails at the edge column   *)
(* (booksPerShelf - 1 or 0) holding one.                                   *)
(***************************************************************************)
TraceOk(cols, ok, right, bs, m, t, bps) ==
    LET n == Len(cols)
        step == IF right THEN 1 ELSE -1
        edge == IF right THEN bps - 1 ELSE 0
    IN  /\ n \in 1..bps
        /\ cols[1] = t.col
        /\ \A j \in 1..n : cols[j] \in 0..(bps - 1)
        /\ \A j \in 2..n : cols[j] = cols[j - 1] + step
        /\ \A j \in 1..(n - 1) : OccupiedByOther(bs, m, t.row, cols[j])
        /\ ok <=> ~OccupiedByOther(bs, m, t.row, cols[n])
        /\ ~ok => cols[n] = edge

ResolveTraceOk(r, firstRight, ok, bs, m, bps) ==
    /\ TraceOk(r.firstCols, r.firstOk, firstRight, bs, m, r.target, bps)
    /\ IF r.firstOk
       THEN r.secondCols = <<>>
       ELSE TraceOk(r.secondCols, ok, ~firstRight, bs, m, r.target, bps)

C18_Terminates ==
    /\ (MoveDone /\ MoveInputValid)
          => ResolveTraceOk(lastMove, lastMove.right, lastMove.canPush,
                            drag.books, drag.isbn, drag.bps)
    /\ (lastEnd.done /\ EndInputValid)
          => ResolveTraceOk(lastEnd, lastEnd.dx >= 0, lastEnd.pushed,
                            lastEnd.books, lastEnd.isbn, lastEnd.bps)

C18_Witness ==
    /\ MoveDone /\ MoveInputValid
    /\ lastMove.right /\ lastMove.firstOk
    /\ lastMove.firstCols = [j \in 1..MaxCols |-> j - 1]
    /\ drag.bps = MaxCols

(***************************************************************************)
(* C19: on a valid layout a resolve fails (in both directions) if and only *)
(* if every cell of the target row holds a book other than the mover; so a *)
(* move whose target is in the mover's own row never fails and a move into *)
(* a row with a cell free of other books never fails, whatever the sign of *)
(* dx.                                                                     *)
(***************************************************************************)
RowFull(bs, m, row, bps) == \A c \in 0..(bps - 1) : OccupiedByOther(bs, m, row, c)

C19_FailsIffRowFull ==
    /\ (MoveDone /\ MoveInputValid)
          => /\ ~lastMove.canPush <=> RowFull(drag.books, drag.isbn, lastMove.target.row, drag.bps)
             /\ lastMove.target.row = CellOf(drag.books, drag.isbn).row => lastMove.canPush
    /\ (lastEnd.done /\ EndInputValid)
          => /\ ~lastEnd.pushed <=> RowFull(lastEnd.books, lastEnd.isbn, lastEnd.target.row, lastEnd.bps)
             /\ lastEnd.target.row = CellOf(lastEnd.books, lastEnd.isbn).row => lastEnd.pushed

C19_Witness ==
    /\ lastEnd.done /\ EndInputValid
    /\ ~lastEnd.pushed
    /\ lastEnd.bps > 1
    /\ lastEnd.preview.done /\ ~lastEnd.preview.canPush

====
